---- MODULE Spec2Model ----
(***************************************************************************)
(* hello-http: an HTTP/HTTPS echo server (Koa).  The model follows the     *)
(* middleware chain assembled by createApp (CORS, access log, Prometheus,  *)
(* echo handler), the echo handler with its body reader, and the listener  *)
(* lifecycle of the entry point (listen, graceful shutdown).               *)
(*                                                                         *)
(* A request is handled by a chain of async functions on a single event    *)
(* loop.  Code between two suspension points runs atomically, so one       *)
(* action of the model is one event-loop callback: the arrival of a        *)
(* request (everything up to the first await that really suspends), a      *)
(* 'data', 'end' or 'error' event of the body stream, the expiry of the    *)
(* delay timer, a signal, and the 'close' event of a listener.             *)
(*                                                                         *)
(* Text that the code parses (override values) is a sequence of one-       *)
(* character strings; text that the code only copies is a TLA+ string.     *)
(* ctx.status, ctx.body and ctx.type are the values the handlers assign.   *)
(***************************************************************************)
EXTENDS Integers, Sequences, FiniteSets, TLC

VARIABLES
  env,      \* process.env and the files on disk, read once at startup
  rq,       \* rq[r]: the state of request r (its ctx and the locals of its handlers)
  logs,     \* the lines written through the pino logger, in order
  hist,     \* the observations of the http_request_duration_seconds histogram
  now,      \* the clock, in milliseconds
  server,   \* server[l]: the listener l ("http", "https")
  proc      \* the process: running or exited, and its exit code

vars == <<env, rq, logs, hist, now, server, proc>>

----------------------------------------------------------------------------
(* Bounds of the model. *)

\* The positive MAX_BODY_SIZE the environments configure.
BodyLimit == 2
\* Most 'data' events one body stream delivers.
MaxChunks == 3
\* Most signals delivered to the process.
MaxSignals == 2
\* Most events a body stream delivers after the read has settled.
MaxLate == 2

----------------------------------------------------------------------------
(* Text. *)

Digits == <<"0", "1", "2", "3", "4", "5", "6", "7", "8", "9">>

IsDigit(c) == \E i \in 1..10 : Digits[i] = c

DigitVal(c) == (CHOOSE i \in 1..10 : Digits[i] = c) - 1

\* Array.prototype.concat / Buffer.concat of a list of chunks.
RECURSIVE Concat(_)
Concat(cs) == IF cs = <<>> THEN <<>> ELSE Head(cs) \o Concat(Tail(cs))

\* The value of the longest run of digits at the start of s, continuing acc;
\* n counts the digits read.
RECURSIVE DigitsPrefix(_, _, _)
DigitsPrefix(s, acc, n) ==
  IF s # <<>> /\ IsDigit(Head(s))
  THEN DigitsPrefix(Tail(s), acc * 10 + DigitVal(Head(s)), n + 1)
  ELSE [val |-> acc, n |-> n]

RECURSIVE SkipSpace(_)
SkipSpace(s) == IF s # <<>> /\ Head(s) = " " THEN SkipSpace(Tail(s)) ELSE s

\* parseInt(s, 10): leading white space is skipped, then an optional sign, then
\* the longest run of decimal digits; whatever follows is ignored.  NaN when
\* there is no digit.
ParseInt(s) ==
  LET t    == SkipSpace(s)
      neg  == t # <<>> /\ Head(t) = "-"
      sign == t # <<>> /\ Head(t) \in {"-", "+"}
      u    == IF sign THEN Tail(t) ELSE t
      p    == DigitsPrefix(u, 0, 0)
  IN  IF p.n = 0 THEN [nan |-> TRUE, val |-> 0]
      ELSE [nan |-> FALSE, val |-> IF neg THEN 0 - p.val ELSE p.val]

\* a || b on texts: the first if it is not empty ("" and undefined are falsy).
Or(a, b) == IF a # <<>> THEN a ELSE b

----------------------------------------------------------------------------
(* Startup: the environment and what createApp and the modules read of it. *)

\* const MAX_BODY_SIZE = parseInt(process.env.MAX_BODY_SIZE || "1048576", 10);
\* the environment holds the number.
MAX_BODY_SIZE == env.MAX_BODY_SIZE

\* overrideBody = OVERRIDE_FILE && existsSync(OVERRIDE_FILE)
\*                  ? readFileSync(OVERRIDE_FILE, "utf-8") : undefined
\* set is FALSE for undefined.
OverrideBody(e) ==
  IF e.OVERRIDE_FILE # "" /\ e.fileExists
  THEN [set |-> TRUE, text |-> e.fileContent]
  ELSE [set |-> FALSE, text |-> <<>>]

\* The middleware createApp registers with app.use, in order.
Chain(e) ==
  (IF e.CORS_ALLOW_ORIGIN # "" THEN <<"cors">> ELSE <<>>)
  \o (IF e.DISABLE_REQUEST_LOGS # "true" THEN <<"log">> ELSE <<>>)
  \o (IF e.PROMETHEUS_ENABLED = "true" THEN <<"metrics">> ELSE <<>>)
  \o <<"echo">>

\* The configuration createApp hands to echoHandler, and the constants it
\* closes over.
CreateApp(e) ==
  [echoBackToClient     |-> e.ECHO_BACK_TO_CLIENT # "false",
   overrideResponseBody |-> OverrideBody(e),
   jwtHeader            |-> e.JWT_HEADER,
   logIgnorePath        |-> e.LOG_IGNORE_PATH,
   loggerEnabled        |-> e.DISABLE_REQUEST_LOGS # "true",
   PROMETHEUS_PATH      |-> IF e.PROMETHEUS_METRICS_PATH # ""
                            THEN e.PROMETHEUS_METRICS_PATH ELSE "/metrics",
   chain                |-> Chain(e)]

\* ENABLE_HTTPS = existsSync(HTTPS_KEY_FILE) && existsSync(HTTPS_CERT_FILE)
ENABLE_HTTPS(e) == e.keyFileExists /\ e.certFileExists

\* logger.info / logger.warn of pino({ enabled: !DISABLE_REQUEST_LOGS }).
LogLine(cfg, lg, level, msg, method, path, status) ==
  IF cfg.loggerEnabled
  THEN Append(lg, [level |-> level, msg |-> msg, method |-> method,
                   path |-> path, status |-> status])
  ELSE lg

\* LOG_IGNORE_PATH.test(ctx.path): the pattern is the set of paths it matches;
\* the empty set stands for an unset pattern too.
IgnoredPath(cfg, path) == path \in cfg.logIgnorePath

----------------------------------------------------------------------------
(* The Koa context of one request: what the handlers assign. *)

\* The status of a response whose handlers assign none and set a body
\* (the first test: a plain GET is answered 200).
DefaultStatus == 200

Body(kind, text, message, n) ==
  [kind |-> kind, text |-> text, message |-> message, n |-> n]

NoBody == Body("unset", <<>>, "", 0)

NoCors == [origin |-> "", methods |-> "", headers |-> "", credentials |-> ""]

NewCtx ==
  [status |-> DefaultStatus, body |-> NoBody, type |-> "", cors |-> NoCors]

\* ctx.body = val.  Koa infers the content type from the value: an object is
\* serialised as JSON and the type becomes application/json whatever it was;
\* a string keeps a type already set and is text otherwise.
SetBody(ctx, b) ==
  [ctx EXCEPT !.body = b,
              !.type = IF b.kind \in {"echo", "error"} THEN "application/json"
                       ELSE IF b.kind \in {"string", "metrics"} /\ ctx.type = ""
                       THEN "text/plain"
                       ELSE ctx.type]

\* The echo document: json and jwt are "absent" while the field is not set.
NoEcho ==
  [built |-> FALSE, path |-> "", method |-> "", body |-> <<>>,
   json |-> "absent", jwt |-> "absent"]

\* The locals of readBody when the promise is created.
NewReadBody ==
  [chunks |-> <<>>, size |-> 0, exceeded |-> FALSE,
   outcome |-> "pending", value |-> <<>>, message |-> "", limit |-> 0]

\* A request before it arrives.
NewRequest(q) ==
  [pc |-> "idle", q |-> q, ctx |-> NewCtx, stack |-> <<>>, rb |-> NewReadBody,
   wire |-> <<>>, echo |-> NoEcho, nEcho |-> 0, deadline |-> 0,
   event |-> "", arrivedAt |-> 0, delayStart |-> 0, delayed |-> FALSE,
   sentAt |-> 0, trace |-> <<>>, late |-> 0]

----------------------------------------------------------------------------
(* readBody: the body stream of one request. *)

Bytes == {"a", "b"}

\* The chunks an uncompressed stream may deliver: one or two bytes.
PlainChunks(alphabet) ==
  {<<x>> : x \in alphabet} \cup {<<x, y>> : x \in alphabet, y \in alphabet}

\* The chunks a gzip stream may deliver.  Compressed data is a run: a count
\* character and the byte it repeats.
GzipChunks(alphabet) == {<<k, x>> : k \in {"1", "3"}, x \in alphabet}

\* createGunzip(): what the decompressor emits for one compressed chunk.
Gunzip(c) == [i \in 1..DigitVal(c[1]) |-> c[2]]

\* const stream = ctx.get("content-encoding") === "gzip"
\*                  ? ctx.req.pipe(createGunzip()) : ctx.req
\* The chunk the 'data' handler receives for wire chunk c.
StreamChunk(q, c) == IF q.encoding = "gzip" THEN Gunzip(c) ELSE c

\* OnData with the limit test off by one: a body of exactly the limit counts
\* as exceeding it.
OnDataOffByOne(rb, chunk, max) ==
  LET size     == rb.size + Len(chunk)
      exceeded == rb.exceeded \/ (max > 0 /\ size >= max)
  IN  [rb EXCEPT !.size = size,
                 !.exceeded = exceeded,
                 !.chunks = IF ~exceeded THEN Append(rb.chunks, chunk)
                            ELSE rb.chunks]

\* OnData that keeps pushing chunks after the limit was exceeded.
OnDataAccumulating(rb, chunk, max) ==
  LET size     == rb.size + Len(chunk)
      exceeded == rb.exceeded \/ (max > 0 /\ size > max)
  IN  [rb EXCEPT !.size = size,
                 !.exceeded = exceeded,
                 !.chunks = Append(rb.chunks, chunk)]

\* stream.on("data", ...)
OnData(rb, chunk, max) ==
  LET size     == rb.size + Len(chunk)
      exceeded == rb.exceeded \/ (max > 0 /\ size > max)
  IN  [rb EXCEPT !.size = size,
                 !.exceeded = exceeded,
                 !.chunks = IF ~exceeded THEN Append(rb.chunks, chunk)
                            ELSE rb.chunks]

\* OnEnd that never rejects: an oversized body resolves with the chunks kept.
OnEndTruncating(rb, max) ==
  IF rb.outcome # "pending" THEN rb
  ELSE [rb EXCEPT !.outcome = "resolved", !.value = Concat(rb.chunks)]

\* stream.on("end", ...): reject when exceeded, else resolve with the
\* concatenation of the chunks.
OnEnd(rb, max) ==
  IF rb.outcome # "pending" THEN rb
  ELSE IF rb.exceeded
  THEN [rb EXCEPT !.outcome = "rejected",
                  !.message = "Body exceeds max size of N bytes",
                  !.limit = max]
  ELSE [rb EXCEPT !.outcome = "resolved", !.value = Concat(rb.chunks)]

\* OnError that settles the read again when it has already settled.
OnErrorResettling(rb) ==
  [rb EXCEPT !.outcome = "rejected", !.message = "stream error"]

\* stream.on("error", reject): the promise is rejected with the stream's error.
OnError(rb) ==
  IF rb.outcome # "pending" THEN rb
  ELSE [rb EXCEPT !.outcome = "rejected", !.message = "stream error"]

----------------------------------------------------------------------------
(* The middleware.  A world w is the request s with the shared logs and      *)
(* histogram; each operator runs a stretch of code that does not suspend.    *)

Mark(w, event) == [w EXCEPT !.s.trace = Append(@, event)]

\* Observe that labels the observation with the status the request had when
\* the timer was started.
ObserveStartStatus(w, e) ==
  [w EXCEPT !.hist = Append(@,
     [path   |-> IF e.PROMETHEUS_WITH_PATH = "true" THEN w.s.q.path ELSE "",
      method |-> IF e.PROMETHEUS_WITH_METHOD = "true" THEN w.s.q.method ELSE "",
      status |-> IF e.PROMETHEUS_WITH_STATUS = "true"
                 THEN ToString(DefaultStatus) ELSE ""])]

\* metricsMiddleware after await next(): one observation, labelled as the
\* PROMETHEUS_WITH_* variables say.
Observe(w, e) ==
  [w EXCEPT !.hist = Append(@,
     [path   |-> IF e.PROMETHEUS_WITH_PATH = "true" THEN w.s.q.path ELSE "",
      method |-> IF e.PROMETHEUS_WITH_METHOD = "true" THEN w.s.q.method ELSE "",
      status |-> IF e.PROMETHEUS_WITH_STATUS = "true"
                 THEN ToString(w.s.ctx.status) ELSE ""])]

\* AccessLog that formats its line with the status the request had before
\* await next().
AccessLogStartStatus(w, cfg) ==
  IF ~IgnoredPath(cfg, w.s.q.path)
  THEN [w EXCEPT !.logs = LogLine(cfg, @, "info", "access", w.s.q.method,
                                  w.s.q.path, DefaultStatus)]
  ELSE w

\* The access-log middleware after await next().
AccessLog(w, cfg) ==
  IF ~IgnoredPath(cfg, w.s.q.path)
  THEN [w EXCEPT !.logs = LogLine(cfg, @, "info", "access", w.s.q.method,
                                  w.s.q.path, w.s.ctx.status)]
  ELSE w

\* The code after await next() of the middleware entered, innermost first;
\* then Koa sends the response.
RECURSIVE Unwind(_, _, _)
Unwind(w, e, cfg) ==
  IF w.s.stack = <<>>
  THEN [w EXCEPT !.s.pc = "done", !.s.sentAt = now]
  ELSE LET top  == w.s.stack[Len(w.s.stack)]
           rest == [w EXCEPT !.s.stack = SubSeq(@, 1, Len(@) - 1)]
       IN  IF top = "metrics"
           THEN Unwind(Mark(Observe(rest, e), "metrics.post"), e, cfg)
           ELSE IF top = "log"
           THEN Unwind(Mark(AccessLog(rest, cfg), "log.post"), e, cfg)
           ELSE Unwind(rest, e, cfg)

\* EchoSend with the response_body_only test ahead of the echoBackToClient
\* test.
EchoSendBodyOnlyFirst(w, e, cfg) ==
  LET s    == w.s
      type == IF s.q.hType # "" THEN s.q.hType ELSE s.q.qType
      body == IF s.q.rbo = "true" THEN Body("string", s.rb.value, "", 0)
              ELSE IF ~cfg.echoBackToClient THEN Body("null", <<>>, "", 0)
              ELSE Body("echo", s.echo.body, "", 0)
      c1   == SetBody(s.ctx, body)
      c2   == IF type # "" THEN [c1 EXCEPT !.type = type] ELSE c1
      w1   == [w EXCEPT !.s.ctx = c2]
      w2   == IF ~IgnoredPath(cfg, s.q.path)
              THEN [w1 EXCEPT !.logs = LogLine(cfg, @, "info", "request",
                                               s.q.method, s.q.path, 0)]
              ELSE w1
  IN  Unwind(Mark(w2, "echo.send"), e, cfg)

\* EchoSend that returns the raw body without applying the content-type
\* override.
EchoSendRawSkipsType(w, e, cfg) ==
  LET s    == w.s
      type == IF s.q.hType # "" THEN s.q.hType ELSE s.q.qType
      body == IF ~cfg.echoBackToClient THEN Body("null", <<>>, "", 0)
              ELSE IF s.q.rbo = "true" THEN Body("string", s.rb.value, "", 0)
              ELSE Body("echo", s.echo.body, "", 0)
      c1   == SetBody(s.ctx, body)
      c2   == IF type # "" /\ body.kind # "string"
              THEN [c1 EXCEPT !.type = type] ELSE c1
      w1   == [w EXCEPT !.s.ctx = c2]
      w2   == IF ~IgnoredPath(cfg, s.q.path)
              THEN [w1 EXCEPT !.logs = LogLine(cfg, @, "info", "request",
                                               s.q.method, s.q.path, 0)]
              ELSE w1
  IN  Unwind(Mark(w2, "echo.send"), e, cfg)

\* EchoSend that assigns the content-type override before the body.
EchoSendTypeFirst(w, e, cfg) ==
  LET s    == w.s
      type == IF s.q.hType # "" THEN s.q.hType ELSE s.q.qType
      body == IF ~cfg.echoBackToClient THEN Body("null", <<>>, "", 0)
              ELSE IF s.q.rbo = "true" THEN Body("string", s.rb.value, "", 0)
              ELSE Body("echo", s.echo.body, "", 0)
      c1   == IF type # "" THEN [s.ctx EXCEPT !.type = type] ELSE s.ctx
      c2   == SetBody(c1, body)
      w1   == [w EXCEPT !.s.ctx = c2]
      w2   == IF ~IgnoredPath(cfg, s.q.path)
              THEN [w1 EXCEPT !.logs = LogLine(cfg, @, "info", "request",
                                               s.q.method, s.q.path, 0)]
              ELSE w1
  IN  Unwind(Mark(w2, "echo.send"), e, cfg)

\* The last part of echoHandler: the body, the content-type override, the
\* structured log of the request.
EchoSend(w, e, cfg) ==
  LET s    == w.s
      type == IF s.q.hType # "" THEN s.q.hType ELSE s.q.qType
      body == IF ~cfg.echoBackToClient THEN Body("null", <<>>, "", 0)
              ELSE IF s.q.rbo = "true" THEN Body("string", s.rb.value, "", 0)
              ELSE Body("echo", s.echo.body, "", 0)
      c1   == SetBody(s.ctx, body)
      c2   == IF type # "" THEN [c1 EXCEPT !.type = type] ELSE c1
      w1   == [w EXCEPT !.s.ctx = c2]
      w2   == IF ~IgnoredPath(cfg, s.q.path)
              THEN [w1 EXCEPT !.logs = LogLine(cfg, @, "info", "request",
                                               s.q.method, s.q.path, 0)]
              ELSE w1
  IN  Unwind(Mark(w2, "echo.send"), e, cfg)

\* ctx.is("application/json") for a request that declares a body.
IsJson(q) == q.cType = "application/json"

\* JSON.parse(body) on a text of digits and the letter x: the text parses
\* when it is a number, one or more digits without a leading zero.
JsonParse(text) ==
  [ok |-> /\ text # <<>>
          /\ \A i \in 1..Len(text) : IsDigit(text[i])
          /\ (Len(text) = 1 \/ text[1] # "0")]

\* if (ctx.is("application/json")) { try { echo.json = JSON.parse(body) }
\*                                   catch { config.logger.warn(...) } }
EchoJson(w, cfg) ==
  IF ~IsJson(w.s.q) THEN w
  ELSE IF JsonParse(w.s.rb.value).ok
  THEN [w EXCEPT !.s.echo.json = "parsed"]
  ELSE [w EXCEPT !.logs = LogLine(cfg, @, "warn", "Invalid JSON body",
                                  w.s.q.method, w.s.q.path, 0)]

\* parts = token.split(" "); token = parts[parts.length - 1]
RECURSIVE LastPart(_)
LastPart(t) ==
  IF \E i \in 1..Len(t) : t[i] = " "
  THEN LastPart(Tail(t))
  ELSE t

\* decode(token, { complete: true }): the header and the payload of a token
\* of three segments, h.p.s or h.p. with h a header segment; null for any
\* other text.
Decode(t) ==
  IF /\ Len(t) \in {4, 5}
     /\ t[1] = "h" /\ t[2] = "." /\ t[3] \notin {".", " "} /\ t[4] = "."
     /\ (Len(t) = 5 => t[5] \notin {".", " "})
  THEN "decoded"
  ELSE "null"

\* if (config.jwtHeader) { ... echo.jwt = null or the decoded token }
EchoJwt(w, cfg) ==
  IF cfg.jwtHeader = "" THEN w
  ELSE IF w.s.q.token = <<>> THEN [w EXCEPT !.s.echo.jwt = "null"]
  ELSE [w EXCEPT !.s.echo.jwt = Decode(LastPart(w.s.q.token))]

\* StatusOverride with the upper end of the range included.
StatusOverrideInclusive(ctx, q) ==
  LET statusOverride == Or(q.hStatus, q.qStatus)
      code           == ParseInt(statusOverride)
  IN  IF statusOverride # <<>> /\ ~code.nan /\ code.val >= 100 /\ code.val <= 600
      THEN [ctx EXCEPT !.status = code.val]
      ELSE ctx

\* The status override of echoHandler.
StatusOverride(ctx, q) ==
  LET statusOverride == Or(q.hStatus, q.qStatus)
      code           == ParseInt(statusOverride)
  IN  IF statusOverride # <<>> /\ ~code.nan /\ code.val >= 100 /\ code.val < 600
      THEN [ctx EXCEPT !.status = code.val]
      ELSE ctx

\* const delayMs = parseInt(header || query || "0", 10)
DelayMs(q) == ParseInt(Or(Or(q.hDelay, q.qDelay), <<"0">>))

\* echoHandler from the settling of readBody to the delay: 413 on a rejection;
\* else the echo document, the status override and the delay.
EchoAfterBody(w, e, cfg) ==
  LET s == w.s
  IN  IF s.rb.outcome = "rejected"
      THEN Unwind(Mark([w EXCEPT
             !.s.ctx = SetBody([s.ctx EXCEPT !.status = 413],
                               Body("error", <<>>, s.rb.message, s.rb.limit))],
             "echo.413"), e, cfg)
      ELSE LET echo  == [NoEcho EXCEPT !.built = TRUE, !.path = s.q.path,
                                       !.method = s.q.method,
                                       !.body = s.rb.value]
               w0    == EchoJwt(EchoJson([w EXCEPT !.s.echo = echo,
                                                   !.s.nEcho = @ + 1], cfg),
                                cfg)
               w1    == Mark([w0 EXCEPT !.s.ctx = StatusOverride(@, s.q)],
                             "echo.build")
               delay == DelayMs(s.q)
           IN  IF ~delay.nan /\ delay.val > 0
               THEN [w1 EXCEPT !.s.pc = "delaying",
                               !.s.delayed = TRUE,
                               !.s.delayStart = now,
                               !.s.deadline = now + delay.val]
               ELSE EchoSend(w1, e, cfg)

\* The start of echoHandler: the override body, or the call of readBody.
EchoStart(w, e, cfg) ==
  IF cfg.overrideResponseBody.set /\ cfg.overrideResponseBody.text # <<>>
  THEN Unwind(Mark([w EXCEPT !.s.ctx =
         SetBody(@, Body("string", cfg.overrideResponseBody.text, "", 0))],
         "echo.override"), e, cfg)
  ELSE [Mark(w, "echo.read") EXCEPT !.s.pc = "reading", !.s.rb = NewReadBody]

\* The CORS middleware up to await next(): the headers configured.
CorsHeaders(ctx, e) ==
  [ctx EXCEPT !.cors = [origin      |-> e.CORS_ALLOW_ORIGIN,
                        methods     |-> e.CORS_ALLOW_METHODS,
                        headers     |-> e.CORS_ALLOW_HEADERS,
                        credentials |-> e.CORS_ALLOW_CREDENTIALS]]

\* metricsEndpoint: the registry's content type and its text, which renders
\* the observations made so far.
MetricsEndpoint(w) ==
  [w EXCEPT !.s.ctx = SetBody([@ EXCEPT !.type = "text/plain; version=0.0.4"],
                              Body("metrics", <<>>, "", Len(w.hist)))]

\* Preflight that compares with the lower-case method name.
PreflightLowerCase(q) == q.method = "options"

\* if (ctx.method === "OPTIONS")
Preflight(q) == q.method = "OPTIONS"

\* koa-compose: middleware i of the chain, called by next() of middleware i-1.
RECURSIVE Dispatch(_, _, _, _)
Dispatch(i, w, e, cfg) ==
  LET stage == cfg.chain[i]
  IN  IF stage = "cors"
      THEN LET w1 == Mark([w EXCEPT !.s.ctx = CorsHeaders(@, e)], "cors")
           IN  IF Preflight(w.s.q)
               THEN Unwind([w1 EXCEPT !.s.ctx.status = 204], e, cfg)
               ELSE Dispatch(i + 1, [w1 EXCEPT !.s.stack = Append(@, "cors")],
                             e, cfg)
      ELSE IF stage = "log"
      THEN Dispatch(i + 1, Mark([w EXCEPT !.s.stack = Append(@, "log")],
                                "log.pre"), e, cfg)
      ELSE IF stage = "metrics"
      THEN IF w.s.q.path = cfg.PROMETHEUS_PATH /\ w.s.q.method = "GET"
           THEN Unwind(Mark(MetricsEndpoint(w), "metrics.scrape"), e, cfg)
           ELSE Dispatch(i + 1, Mark([w EXCEPT !.s.stack = Append(@, "metrics")],
                                     "metrics.pre"), e, cfg)
      ELSE EchoStart(w, e, cfg)

----------------------------------------------------------------------------
(* The listeners and the process. *)

Listeners == {"http", "https"}

\* The requests of listener l that are being handled.
InFlight(requests, l) ==
  {r \in DOMAIN requests :
     requests[r].pc \notin {"idle", "done"} /\ requests[r].q.listener = l}

\* server.close(cb) called n times in a row: the listener stops accepting, each
\* call registers cb for the 'close' event and, when no connection is left,
\* schedules the event.
Close(srv, requests, l, n) ==
  [srv EXCEPT ![l].handle = FALSE,
              ![l].cbs = @ + n,
              ![l].emits = IF InFlight(requests, l) = {} THEN @ + n ELSE @]

\* The connection of a finished request ends: a listener that is closing and
\* has no connection left schedules its 'close' event.
ConnectionEnded(srv, requests, l) ==
  IF ~srv[l].handle /\ InFlight(requests, l) = {}
  THEN [srv EXCEPT ![l].emits = @ + 1]
  ELSE srv

\* The state after a stretch of request r's code has run.
Commit(r, w) ==
  /\ rq' = [rq EXCEPT ![r] = w.s]
  /\ logs' = w.logs
  /\ hist' = w.hist
  /\ server' = IF w.s.pc = "done"
               THEN ConnectionEnded(server, [rq EXCEPT ![r] = w.s],
                                    w.s.q.listener)
               ELSE server

World(r) == [s |-> rq[r], logs |-> logs, hist |-> hist]

----------------------------------------------------------------------------
(* Actions: one per event-loop callback. *)

\* A request arrives on a listening server; app.callback() runs the chain up
\* to the first suspension.
Arrive(r, Q) ==
  /\ ~proc.exited
  /\ rq[r].pc = "idle"
  /\ \E q \in Q :
       /\ server[q.listener].handle
       /\ Commit(r, Dispatch(1, [s |-> [NewRequest(q) EXCEPT !.arrivedAt = now],
                                 logs |-> logs, hist |-> hist],
                              env, CreateApp(env)))
  /\ UNCHANGED <<env, now, proc>>

\* A 'data' event of the body stream of request r.
Data(r, alphabet) ==
  /\ ~proc.exited
  /\ rq[r].pc = "reading"
  /\ Len(rq[r].wire) < MaxChunks
  /\ \E c \in (IF rq[r].q.encoding = "gzip" THEN GzipChunks(alphabet)
               ELSE PlainChunks(alphabet)) :
       rq' = [rq EXCEPT ![r].rb = OnData(@, StreamChunk(rq[r].q, c),
                                         MAX_BODY_SIZE),
                        ![r].wire = Append(@, c)]
  /\ UNCHANGED <<env, logs, hist, now, server, proc>>

\* The 'end' event of the body stream: readBody settles and echoHandler
\* continues.
End(r) ==
  /\ ~proc.exited
  /\ rq[r].pc = "reading"
  /\ Commit(r, EchoAfterBody([World(r) EXCEPT !.s.rb = OnEnd(@, MAX_BODY_SIZE),
                                              !.s.event = "end"],
                             env, CreateApp(env)))
  /\ UNCHANGED <<env, now, proc>>

\* An 'error' event of the body stream (a failing socket, corrupt gzip data).
StreamError(r) ==
  /\ ~proc.exited
  /\ rq[r].pc = "reading"
  /\ Commit(r, EchoAfterBody([World(r) EXCEPT !.s.rb = OnError(@),
                                              !.s.event = "error"],
                             env, CreateApp(env)))
  /\ UNCHANGED <<env, now, proc>>

\* An event of the body stream after the read has settled: the handlers
\* readBody attached are still attached and run.
LateData(r, alphabet) ==
  /\ ~proc.exited
  /\ rq[r].rb.outcome # "pending"
  /\ rq[r].late < MaxLate
  /\ Len(rq[r].wire) < MaxChunks
  /\ \E c \in (IF rq[r].q.encoding = "gzip" THEN GzipChunks(alphabet)
               ELSE PlainChunks(alphabet)) :
       rq' = [rq EXCEPT ![r].rb = OnData(@, StreamChunk(rq[r].q, c),
                                         MAX_BODY_SIZE),
                        ![r].wire = Append(@, c),
                        ![r].late = @ + 1]
  /\ UNCHANGED <<env, logs, hist, now, server, proc>>

LateEnd(r) ==
  /\ ~proc.exited
  /\ rq[r].rb.outcome # "pending"
  /\ rq[r].late < MaxLate
  /\ rq' = [rq EXCEPT ![r].rb = OnEnd(@, MAX_BODY_SIZE), ![r].late = @ + 1]
  /\ UNCHANGED <<env, logs, hist, now, server, proc>>

LateError(r) ==
  /\ ~proc.exited
  /\ rq[r].rb.outcome # "pending"
  /\ rq[r].late < MaxLate
  /\ rq' = [rq EXCEPT ![r].rb = OnError(@), ![r].late = @ + 1]
  /\ UNCHANGED <<env, logs, hist, now, server, proc>>

\* TimerFire that does not wait for the deadline.
TimerFireEarly(r) ==
  /\ ~proc.exited
  /\ rq[r].pc = "delaying"
  /\ Commit(r, EchoSend(World(r), env, CreateApp(env)))
  /\ UNCHANGED <<env, now, proc>>

\* The timer of the artificial delay expires.
TimerFire(r) ==
  /\ ~proc.exited
  /\ rq[r].pc = "delaying"
  /\ now >= rq[r].deadline
  /\ Commit(r, EchoSend(World(r), env, CreateApp(env)))
  /\ UNCHANGED <<env, now, proc>>

\* A millisecond passes while a timer is pending.
Tick ==
  /\ ~proc.exited
  /\ \E r \in DOMAIN rq : rq[r].pc = "delaying" /\ now < rq[r].deadline
  /\ now' = now + 1
  /\ UNCHANGED <<env, rq, logs, hist, server, proc>>

\* Signal whose shutdown closes both listeners at once.
SignalParallel ==
  /\ ~proc.exited
  /\ proc.signals < MaxSignals
  /\ proc' = [proc EXCEPT !.signals = @ + 1]
  /\ logs' = LogLine(CreateApp(env), logs, "info", "Shutting down...", "", "", 0)
  /\ server' = IF server["https"].exists
               THEN Close(Close(server, rq, "http", 1), rq, "https", 1)
               ELSE Close(server, rq, "http", 1)
  /\ UNCHANGED <<env, rq, hist, now>>

\* SIGINT or SIGTERM: shutdown().
Signal ==
  /\ ~proc.exited
  /\ proc.signals < MaxSignals
  /\ proc' = [proc EXCEPT !.signals = @ + 1]
  /\ logs' = LogLine(CreateApp(env), logs, "info", "Shutting down...", "", "", 0)
  /\ server' = Close(server, rq, "http", 1)
  /\ UNCHANGED <<env, rq, hist, now>>

\* The 'close' event of listener l: the callbacks registered by close run.
\* The callback of the HTTP listener closes the HTTPS listener if there is
\* one and exits otherwise; the callback of the HTTPS listener exits.
EmitClose(l) ==
  /\ ~proc.exited
  /\ server[l].emits > 0
  /\ LET n   == server[l].cbs
         srv == [server EXCEPT ![l].emits = @ - 1, ![l].cbs = 0,
                               ![l].closed = TRUE]
     IN  IF n = 0
         THEN server' = srv /\ UNCHANGED proc
         ELSE IF l = "http" /\ server["https"].exists
         THEN server' = Close(srv, rq, "https", n) /\ UNCHANGED proc
         ELSE /\ server' = srv
              /\ proc' = [proc EXCEPT !.exited = TRUE, !.code = 0]
  /\ UNCHANGED <<env, rq, logs, hist, now>>

----------------------------------------------------------------------------
(* Initial states. *)

NoRequest ==
  [listener |-> "http", method |-> "GET", path |-> "/", encoding |-> "",
   hStatus |-> <<>>, qStatus |-> <<>>, hDelay |-> <<>>, qDelay |-> <<>>,
   hType |-> "", qType |-> "", rbo |-> "", cType |-> "", token |-> <<>>]

\* The state once index.ts has started the listeners, in environment e, with
\* requests ids still to arrive.
Started(e, ids) ==
  /\ env = e
  /\ rq = [r \in ids |-> NewRequest(NoRequest)]
  /\ logs = <<>>
  /\ hist = <<>>
  /\ now = 0
  /\ server = [l \in Listeners |->
                 [exists |-> l = "http" \/ ENABLE_HTTPS(e),
                  handle |-> l = "http" \/ ENABLE_HTTPS(e),
                  cbs |-> 0, emits |-> 0, closed |-> FALSE]]
  /\ proc = [exited |-> FALSE, code |-> 0, signals |-> 0]

\* The default environment: nothing set, no certificate files.
DefaultEnv ==
  [ECHO_BACK_TO_CLIENT |-> "", OVERRIDE_FILE |-> "", fileExists |-> FALSE,
   fileContent |-> <<>>, MAX_BODY_SIZE |-> BodyLimit,
   CORS_ALLOW_ORIGIN |-> "", CORS_ALLOW_METHODS |-> "",
   CORS_ALLOW_HEADERS |-> "", CORS_ALLOW_CREDENTIALS |-> "",
   DISABLE_REQUEST_LOGS |-> "", LOG_IGNORE_PATH |-> {}, JWT_HEADER |-> "",
   PROMETHEUS_ENABLED |-> "", PROMETHEUS_METRICS_PATH |-> "",
   PROMETHEUS_WITH_PATH |-> "false", PROMETHEUS_WITH_METHOD |-> "true",
   PROMETHEUS_WITH_STATUS |-> "true",
   keyFileExists |-> FALSE, certFileExists |-> FALSE]

----------------------------------------------------------------------------
(* Spec: one request through the echo handler, over every echo setting and   *)
(* every override.                                                           *)

\* The override file: not configured, configured and missing, empty, "OV".
OverrideFiles ==
  {[path |-> "", exists |-> FALSE, content |-> <<>>],
   [path |-> "/ov", exists |-> FALSE, content |-> <<>>],
   [path |-> "/ov", exists |-> TRUE, content |-> <<>>],
   [path |-> "/ov", exists |-> TRUE, content |-> <<"O", "V">>]}

EchoEnvs ==
  {[DefaultEnv EXCEPT !.ECHO_BACK_TO_CLIENT = eb,
                      !.OVERRIDE_FILE = f.path,
                      !.fileExists = f.exists,
                      !.fileContent = f.content,
                      !.MAX_BODY_SIZE = m] :
     eb \in {"", "false"}, f \in OverrideFiles, m \in {0, BodyLimit}}

\* x-set-response-status-code as <<header, query parameter>>.
StatusInputs ==
  {<<h, <<>>>> : h \in {<<>>, <<"4", "1", "8">>, <<"1", "0", "0">>,
                        <<"5", "9", "9">>, <<"6", "0", "0">>, <<"9", "9">>,
                        <<"9", "9", "9">>, <<"-", "2", "0", "0">>,
                        <<"a", "b", "c">>, <<"4", "1", "8", "a", "b", "c">>}}
  \cup {<<h, <<"2", "0", "1">>>> : h \in {<<>>, <<"9", "9", "9">>,
                                          <<"4", "1", "8">>}}

\* x-set-response-content-type as <<header, query parameter>>.
TypeInputs ==
  {<<"", "">>, <<"text/plain", "">>, <<"", "text/html">>,
   <<"text/plain", "text/html">>}

EchoRequests ==
  {[NoRequest EXCEPT !.method = "POST", !.path = "/echo",
                     !.hStatus = st[1], !.qStatus = st[2],
                     !.hDelay = d,
                     !.hType = ty[1], !.qType = ty[2],
                     !.rbo = rbo] :
     st \in StatusInputs, d \in {<<>>, <<"2">>}, ty \in TypeInputs,
     rbo \in {"", "true", "false"}}

Init == \E e \in EchoEnvs : Started(e, {1})

Next ==
  \/ Arrive(1, EchoRequests)
  \/ Data(1, {"a"})
  \/ End(1)
  \/ StreamError(1)
  \/ TimerFire(1)
  \/ Tick

Spec == Init /\ [][Next]_vars

----------------------------------------------------------------------------
(* SpecBody: one request with a body of two different bytes, plain or gzip.  *)

BodyEnvs ==
  {[DefaultEnv EXCEPT !.ECHO_BACK_TO_CLIENT = eb, !.MAX_BODY_SIZE = m] :
     eb \in {"", "false"}, m \in {0, BodyLimit}}

BodyRequests ==
  {[NoRequest EXCEPT !.method = "POST", !.path = "/echo",
                     !.encoding = enc, !.hStatus = st, !.hDelay = d,
                     !.hType = ty, !.rbo = rbo] :
     enc \in {"", "gzip"}, st \in {<<>>, <<"4", "1", "8">>},
     d \in {<<>>, <<"1">>}, ty \in {"", "text/html"}, rbo \in {"", "true"}}

InitBody == \E e \in BodyEnvs : Started(e, {1})

NextBody ==
  \/ Arrive(1, BodyRequests)
  \/ Data(1, Bytes)
  \/ End(1)
  \/ StreamError(1)
  \/ TimerFire(1)
  \/ Tick

SpecBody == InitBody /\ [][NextBody]_vars

----------------------------------------------------------------------------
(* SpecPipeline: one request through every assembly of the middleware.       *)

CorsSettings ==
  {[origin |-> "", methods |-> "", headers |-> "", credentials |-> ""]}
  \cup {[origin |-> "*", methods |-> m, headers |-> h, credentials |-> c] :
          m \in {"", "GET"}, h \in {"", "X-Id"}, c \in {"", "true"}}

\* PROMETHEUS_ENABLED with the label switches of metrics.ts.
PromSettings ==
  {[enabled |-> "", path |-> "", withPath |-> "false", withStatus |-> "true"],
   [enabled |-> "true", path |-> "", withPath |-> "false", withStatus |-> "true"],
   [enabled |-> "true", path |-> "/m", withPath |-> "true", withStatus |-> "true"],
   [enabled |-> "true", path |-> "", withPath |-> "false", withStatus |-> "false"]}

PipelineEnvs ==
  {[DefaultEnv EXCEPT !.CORS_ALLOW_ORIGIN = c.origin,
                      !.CORS_ALLOW_METHODS = c.methods,
                      !.CORS_ALLOW_HEADERS = c.headers,
                      !.CORS_ALLOW_CREDENTIALS = c.credentials,
                      !.DISABLE_REQUEST_LOGS = dl,
                      !.LOG_IGNORE_PATH = ig,
                      !.PROMETHEUS_ENABLED = p.enabled,
                      !.PROMETHEUS_METRICS_PATH = p.path,
                      !.PROMETHEUS_WITH_PATH = p.withPath,
                      !.PROMETHEUS_WITH_STATUS = p.withStatus,
                      !.OVERRIDE_FILE = f.path,
                      !.fileExists = f.exists,
                      !.fileContent = f.content] :
     c \in CorsSettings, dl \in {"", "true"}, ig \in {{}, {"/metrics"}},
     p \in PromSettings,
     f \in {g \in OverrideFiles : g.exists = (g.content # <<>>)}}

PipelineRequests ==
  {[NoRequest EXCEPT !.method = m, !.path = pa, !.hStatus = st, !.hDelay = d] :
     m \in {"GET", "POST", "OPTIONS"}, pa \in {"/metrics", "/m", "/echo"},
     st \in {<<>>, <<"4", "1", "8">>}, d \in {<<>>, <<"1">>}}

InitPipeline == \E e \in PipelineEnvs : Started(e, {1})

NextPipeline ==
  \/ Arrive(1, PipelineRequests)
  \/ Data(1, {"a"})
  \/ End(1)
  \/ StreamError(1)
  \/ TimerFire(1)
  \/ Tick

SpecPipeline == InitPipeline /\ [][NextPipeline]_vars

----------------------------------------------------------------------------
(* SpecDelay: two requests in flight at once, with and without a delay.      *)

\* x-set-response-delay-ms as <<header, query parameter>>.
DelayInputs ==
  {<<h, <<>>>> : h \in {<<>>, <<"2">>, <<"0">>, <<"-", "1">>, <<"x">>,
                        <<"2", "m", "s">>}}
  \cup {<<<<>>, <<"1">>>>, <<<<"0">>, <<"1">>>>}

DelayRequests ==
  {[NoRequest EXCEPT !.hDelay = d[1], !.qDelay = d[2]] : d \in DelayInputs}

InitDelay == Started(DefaultEnv, {1, 2})

NextDelay ==
  \/ \E r \in {1, 2} : Arrive(r, DelayRequests)
  \/ \E r \in {1, 2} : End(r)
  \/ \E r \in {1, 2} : TimerFire(r)
  \/ Tick

SpecDelay == InitDelay /\ [][NextDelay]_vars

----------------------------------------------------------------------------
(* SpecShutdown: requests on both listeners while signals arrive.            *)

ShutdownEnvs ==
  {[DefaultEnv EXCEPT !.keyFileExists = k, !.certFileExists = c] :
     k \in BOOLEAN, c \in BOOLEAN}

ShutdownRequests ==
  {[NoRequest EXCEPT !.listener = l, !.hDelay = d] :
     l \in Listeners, d \in {<<>>, <<"1">>}}

InitShutdown == \E e \in ShutdownEnvs : Started(e, {1, 2})

NextShutdown ==
  \/ \E r \in {1, 2} : Arrive(r, ShutdownRequests)
  \/ \E r \in {1, 2} : End(r)
  \/ \E r \in {1, 2} : TimerFire(r)
  \/ Tick
  \/ Signal
  \/ \E l \in Listeners : EmitClose(l)

SpecShutdown == InitShutdown /\ [][NextShutdown]_vars

----------------------------------------------------------------------------
(* SpecErrors: one request whose body stream may fail, whose body may be     *)
(* invalid JSON, whose token may be malformed and whose overrides may be     *)
(* invalid.                                                                  *)

ErrorEnvs ==
  {[DefaultEnv EXCEPT !.JWT_HEADER = j, !.MAX_BODY_SIZE = m] :
     j \in {"", "authorization"}, m \in {0, BodyLimit}}

\* The header JWT_HEADER names: absent, a token with its scheme, and two
\* malformed tokens.
Tokens ==
  {<<>>, <<"B", " ", "h", ".", "p", ".", "s">>, <<"x">>, <<"h", ".", "p">>}

ErrorRequests ==
  {[NoRequest EXCEPT !.method = "POST", !.path = "/echo",
                     !.encoding = enc, !.cType = ct, !.token = tk,
                     !.hStatus = st, !.hDelay = d] :
     enc \in {"", "gzip"}, ct \in {"", "application/json"}, tk \in Tokens,
     st \in {<<>>, <<"a", "b", "c">>, <<"4", "1", "8">>},
     d \in {<<>>, <<"x">>}}

InitErrors == \E e \in ErrorEnvs : Started(e, {1})

NextErrors ==
  \/ Arrive(1, ErrorRequests)
  \/ Data(1, {"1", "x"})
  \/ End(1)
  \/ StreamError(1)

SpecErrors == InitErrors /\ [][NextErrors]_vars

----------------------------------------------------------------------------
(* SpecRead: the body read of one request under every sequence of stream     *)
(* events, those after the read has settled included.                        *)

ReadRequests ==
  {[NoRequest EXCEPT !.method = "POST", !.path = "/echo", !.encoding = enc] :
     enc \in {"", "gzip"}}

InitRead == \E e \in BodyEnvs : Started(e, {1})

NextRead ==
  \/ Arrive(1, ReadRequests)
  \/ Data(1, Bytes)
  \/ End(1)
  \/ StreamError(1)
  \/ LateData(1, Bytes)
  \/ LateEnd(1)
  \/ LateError(1)

SpecRead == InitRead /\ [][NextRead]_vars

----------------------------------------------------------------------------
(* What the properties say of a request, in terms of what the client sent.   *)

\* The body the client sent, after decompression: the chunks delivered, in
\* order.
RECURSIVE SentUpTo(_, _)
SentUpTo(s, n) ==
  IF n = 0 THEN <<>> ELSE SentUpTo(s, n - 1) \o StreamChunk(s.q, s.wire[n])

SentBody(s) == SentUpTo(s, Len(s.wire))

\* The stream ended and the body is within the limit (or there is no limit).
WithinLimit(s) ==
  s.event = "end" /\ (MAX_BODY_SIZE = 0 \/ Len(SentBody(s)) <= MAX_BODY_SIZE)

\* The stream ended and the body is over a positive limit.
OverLimit(s) ==
  s.event = "end" /\ MAX_BODY_SIZE > 0 /\ Len(SentBody(s)) > MAX_BODY_SIZE

\* An override file was loaded at startup.
OverrideLoaded == env.OVERRIDE_FILE # "" /\ env.fileExists

Logged(msg) == \E i \in 1..Len(logs) : logs[i].msg = msg

Traced(s, event) == \E i \in 1..Len(s.trace) : s.trace[i] = event

\* The override value in effect: the header if it is given, else the query
\* parameter.
Effective(h, qp) == IF h # <<>> THEN h ELSE qp

Unsigned(v) == IF v # <<>> /\ v[1] \in {"-", "+"} THEN Tail(v) ELSE v

\* The number of digits v starts with.
LeadingDigits(v) ==
  CHOOSE k \in 0..Len(v) :
    /\ \A i \in 1..k : IsDigit(v[i])
    /\ k = Len(v) \/ ~IsDigit(v[k + 1])

\* The number the first k characters of v, all digits, denote.
RECURSIVE DecimalValue(_, _)
DecimalValue(v, k) ==
  IF k = 0 THEN 0 ELSE DecimalValue(v, k - 1) * 10 + DigitVal(v[k])

\* v is an integer in decimal notation.
IsIntegerText(v) ==
  Unsigned(v) # <<>> /\ LeadingDigits(Unsigned(v)) = Len(Unsigned(v))

\* v starts with an integer in decimal notation.
HasLeadingInteger(v) == LeadingDigits(Unsigned(v)) > 0

\* The integer v is or starts with.
LeadingInteger(v) ==
  LET n == DecimalValue(Unsigned(v), LeadingDigits(Unsigned(v)))
  IN  IF v # <<>> /\ v[1] = "-" THEN 0 - n ELSE n

\* The status a request that reaches the override stage is answered with.
ExpectedStatus(q) ==
  LET v == Effective(q.hStatus, q.qStatus)
  IN  IF HasLeadingInteger(v) /\ LeadingInteger(v) >= 100
         /\ LeadingInteger(v) < 600
      THEN LeadingInteger(v)
      ELSE DefaultStatus

\* The content-type override in effect ("" when there is none).
TypeOverride(q) == IF q.hType # "" THEN q.hType ELSE q.qType

----------------------------------------------------------------------------
(* C1: a request whose body, counted after gzip decompression, is longer     *)
(* than a positive MAX_BODY_SIZE, with no override-response-body configured, *)
(* is answered 413 with {"error": <message naming the limit>}; no echo       *)
(* document is built or logged and no status, delay, content-type or         *)
(* response_body_only override is applied.                                   *)
C1_TooLarge413 ==
  \A r \in DOMAIN rq :
    LET s == rq[r]
    IN  OverLimit(s) /\ ~OverrideLoaded =>
          /\ s.pc = "done"
          /\ s.ctx.status = 413
          /\ s.ctx.body = Body("error", <<>>, "Body exceeds max size of N bytes",
                               MAX_BODY_SIZE)
          /\ s.ctx.type = "application/json"
          /\ ~s.echo.built /\ s.nEcho = 0
          /\ ~Logged("request")
          /\ ~s.delayed

\* An oversized gzip body, answered 413 although the request asks for status
\* 418, a delay, a content type and the raw body.
C1_Witness ==
  \E r \in DOMAIN rq :
    LET s == rq[r]
    IN  /\ s.pc = "done" /\ OverLimit(s)
        /\ s.q.encoding = "gzip" /\ Len(Concat(s.wire)) <= MAX_BODY_SIZE
        /\ s.q.hStatus # <<>> /\ s.q.hDelay # <<>> /\ s.q.hType # ""
        /\ s.q.rbo = "true"
        /\ s.ctx.status = 413

(* C2: for chunks followed by end whose total is at most MAX_BODY_SIZE       *)
(* (the limit itself included), or of any total when MAX_BODY_SIZE is 0,     *)
(* readBody resolves with the concatenation of all chunks in arrival order   *)
(* and exactly one echo document is built, its body equal to that string.    *)
C2_BodyExact ==
  \A r \in DOMAIN rq :
    LET s == rq[r]
    IN  WithinLimit(s) =>
          /\ s.rb.outcome = "resolved"
          /\ s.rb.value = SentBody(s)
          /\ s.nEcho = 1
          /\ s.echo.built /\ s.echo.body = SentBody(s)

\* A body of exactly the limit, in several chunks of different bytes.
C2_Witness ==
  \E r \in DOMAIN rq :
    LET s == rq[r]
    IN  /\ s.event = "end" /\ MAX_BODY_SIZE > 0
        /\ Len(SentBody(s)) = MAX_BODY_SIZE
        /\ Len(s.wire) >= 2
        /\ SentBody(s)[1] # SentBody(s)[2]
        /\ s.echo.body = SentBody(s)

C5_BodyOnly ==
  \A r \in DOMAIN rq :
    LET s == rq[r]
    IN  s.pc = "done" /\ env.ECHO_BACK_TO_CLIENT # "false" /\ WithinLimit(s) =>
          /\ s.ctx.body = IF s.q.rbo = "true"
                          THEN Body("string", SentBody(s), "", 0)
                          ELSE Body("echo", SentBody(s), "", 0)
          /\ s.ctx.status = ExpectedStatus(s.q)
          /\ TypeOverride(s.q) # "" => s.ctx.type = TypeOverride(s.q)
          /\ TypeOverride(s.q) = "" /\ s.q.rbo # "true" =>
               s.ctx.type = "application/json"

\* A raw body of two different bytes sent back with status 418 and the
\* content type asked for.
C5_Witness ==
  \E r \in DOMAIN rq :
    LET s == rq[r]
    IN  /\ s.pc = "done" /\ s.q.rbo = "true"
        /\ s.ctx.body = Body("string", <<"a", "b">>, "", 0)
        /\ s.ctx.status = 418 /\ s.q.hType = "text/html"
        /\ s.ctx.type = "text/html"

(* C9: if an override-response-body is configured (loaded at startup from   *)
(* OVERRIDE_RESPONSE_BODY_FILE_PATH), the response to every request that     *)
(* reaches the echo handler is exactly that content, whatever the file       *)
(* holds; the body is not read, no echo document is built or logged, and no  *)
(* status, delay or content-type override is applied.                        *)
C9_OverrideAlways ==
  \A r \in DOMAIN rq :
    LET s == rq[r]
    IN  OverrideLoaded /\ s.pc # "idle" =>
          /\ s.pc = "done"
          /\ s.ctx.body = Body("string", env.fileContent, "", 0)
          /\ s.wire = <<>> /\ ~Traced(s, "echo.read")
          /\ ~s.echo.built /\ s.nEcho = 0 /\ ~Logged("request")
          /\ s.ctx.status = DefaultStatus
          /\ ~s.delayed
          /\ s.ctx.type = "text/plain"

\* The same for the files that hold something, where the code agrees.
C9_NonEmptyFile ==
  \A r \in DOMAIN rq :
    LET s == rq[r]
    IN  OverrideLoaded /\ env.fileContent # <<>> /\ s.pc # "idle" =>
          /\ s.pc = "done"
          /\ s.ctx.body = Body("string", env.fileContent, "", 0)
          /\ s.wire = <<>> /\ ~Traced(s, "echo.read")
          /\ ~s.echo.built /\ s.nEcho = 0 /\ ~Logged("request")
          /\ s.ctx.status = DefaultStatus
          /\ ~s.delayed
          /\ s.ctx.type = "text/plain"

----------------------------------------------------------------------------
EchoEvents == {"echo.override", "echo.read", "echo.413", "echo.build", "echo.send"}

\* The request went past the CORS middleware, if there is one.
PastCors(s) ==
  s.pc # "idle" /\ ~(env.CORS_ALLOW_ORIGIN # "" /\ s.q.method = "OPTIONS")

\* The scrape path configured.
ScrapePath ==
  IF env.PROMETHEUS_METRICS_PATH # "" THEN env.PROMETHEUS_METRICS_PATH
  ELSE "/metrics"

(* C6: when CORS_ALLOW_ORIGIN is configured every response carries           *)
(* Access-Control-Allow-Origin, and each of the Methods, Headers and         *)
(* Credentials headers exactly when it is configured; every OPTIONS request  *)
(* is answered 204 with no body and no downstream stage runs: no access-log  *)
(* line, no observation, no body read, no echo document built or logged.     *)
C6_Cors ==
  \A r \in DOMAIN rq :
    LET s == rq[r]
    IN  s.pc # "idle" /\ env.CORS_ALLOW_ORIGIN # "" =>
          /\ s.ctx.cors = [origin      |-> env.CORS_ALLOW_ORIGIN,
                           methods     |-> env.CORS_ALLOW_METHODS,
                           headers     |-> env.CORS_ALLOW_HEADERS,
                           credentials |-> env.CORS_ALLOW_CREDENTIALS]
          /\ s.q.method = "OPTIONS" =>
               /\ s.pc = "done"
               /\ s.ctx.status = 204
               /\ s.ctx.body = NoBody
               /\ s.trace = <<"cors">>
               /\ logs = <<>> /\ hist = <<>>
               /\ s.wire = <<>> /\ s.rb = NewReadBody
               /\ ~s.echo.built /\ s.nEcho = 0

\* A preflight request to the scrape path with logging and metrics on and an
\* override file configured.
C6_Witness ==
  \E r \in DOMAIN rq :
    LET s == rq[r]
    IN  /\ s.pc = "done" /\ s.q.method = "OPTIONS" /\ s.q.path = ScrapePath
        /\ env.CORS_ALLOW_ORIGIN # "" /\ env.CORS_ALLOW_METHODS # ""
        /\ env.CORS_ALLOW_HEADERS = ""
        /\ env.DISABLE_REQUEST_LOGS = "" /\ env.PROMETHEUS_ENABLED = "true"
        /\ OverrideLoaded
        /\ s.ctx.status = 204 /\ s.ctx.cors.methods # ""

(* C10: with Prometheus enabled, a GET request to the scrape path is served  *)
(* the metrics text, never reaches the echo handler and adds no observation; *)
(* every other request that reaches the metrics stage (a non-GET request to  *)
(* the scrape path too) adds exactly one observation, recorded after the     *)
(* downstream handler has completed and labelled with the final status.      *)
C10_Scrape ==
  \A r \in DOMAIN rq :
    LET s == rq[r]
    IN  env.PROMETHEUS_ENABLED = "true" /\ PastCors(s) =>
          IF s.q.method = "GET" /\ s.q.path = ScrapePath
          THEN /\ s.pc = "done"
               /\ s.ctx.body.kind = "metrics"
               /\ \A i \in 1..Len(s.trace) : s.trace[i] \notin EchoEvents
               /\ s.wire = <<>> /\ s.nEcho = 0
               /\ hist = <<>>
          ELSE /\ s.pc # "done" => hist = <<>>
               /\ s.pc = "done" =>
                    /\ Len(hist) = 1
                    /\ env.PROMETHEUS_WITH_STATUS = "true" =>
                         hist[1].status = ToString(s.ctx.status)
                    /\ s.trace[Len(s.trace)] \in {"metrics.post", "log.post"}
                    /\ \A i, j \in 1..Len(s.trace) :
                         s.trace[i] = "metrics.post" /\ s.trace[j] \in EchoEvents
                           => j < i

\* A POST to the scrape path whose body was too large: one observation,
\* labelled 413.
C10_Witness ==
  \E r \in DOMAIN rq :
    LET s == rq[r]
    IN  /\ s.pc = "done" /\ env.PROMETHEUS_ENABLED = "true"
        /\ s.q.method = "POST" /\ s.q.path = ScrapePath
        /\ Len(hist) = 1 /\ hist[1].status = "413"
        /\ Traced(s, "echo.413")

----------------------------------------------------------------------------
\* Every callback request r waits for can run, whatever the other requests
\* are doing.
NotBlocked(r) ==
  /\ rq[r].pc = "idle" => ENABLED Arrive(r, DelayRequests)
  /\ rq[r].pc = "reading" => ENABLED End(r)
  /\ rq[r].pc = "delaying" /\ now >= rq[r].deadline => ENABLED TimerFire(r)

C8_Shutdown ==
  /\ proc.signals > 0 => ~server["http"].handle
  /\ server["https"].exists /\ ~server["https"].handle =>
       /\ ~server["http"].handle
       /\ InFlight(rq, "http") = {}
       /\ server["http"].closed
  /\ proc.exited =>
       /\ proc.code = 0 /\ proc.signals > 0
       /\ server["http"].closed /\ InFlight(rq, "http") = {}
       /\ server["https"].exists =>
            /\ ~server["https"].handle
            /\ server["https"].closed
            /\ InFlight(rq, "https") = {}

\* Two signals delivered, the HTTP listener closed, and the process still
\* running because a request is in flight on the closing HTTPS listener.
C8_Witness ==
  /\ ~proc.exited /\ proc.signals = 2
  /\ server["http"].closed
  /\ ~server["https"].handle /\ InFlight(rq, "https") # {}
  /\ \E r \in DOMAIN rq : rq[r].pc = "done" /\ rq[r].q.listener = "http"

\* The process exited after requests on both listeners were answered.
C8_Exited ==
  /\ proc.exited /\ server["https"].exists
  /\ \E r1, r2 \in DOMAIN rq :
       /\ rq[r1].pc = "done" /\ rq[r1].q.listener = "http"
       /\ rq[r2].pc = "done" /\ rq[r2].q.listener = "https"

----------------------------------------------------------------------------
\* The body sent so far is over a positive limit.
SizeViolation(s) == MAX_BODY_SIZE > 0 /\ Len(SentBody(s)) > MAX_BODY_SIZE

\* The request gives no status override that takes effect.
NoStatusOverride(q) ==
  ~(HasLeadingInteger(Effective(q.hStatus, q.qStatus))
    /\ LeadingInteger(Effective(q.hStatus, q.qStatus)) >= 100
    /\ LeadingInteger(Effective(q.hStatus, q.qStatus)) < 600)

(* C11: absent a status-code override the echo handler answers with a        *)
(* non-2xx status only when the body is over the size limit.  A stream error *)
(* on a body that is not over the limit is a failure of its own: it is not   *)
(* answered 413.  Invalid JSON under a JSON content type, a malformed token  *)
(* and invalid override values leave the request completing with status 200. *)
C11_OnlySizeFails ==
  \A r \in DOMAIN rq :
    LET s == rq[r]
    IN  NoStatusOverride(s.q) =>
          /\ s.pc = "done" /\ s.ctx.status \notin 200..299 => SizeViolation(s)
          /\ s.event = "error" /\ ~SizeViolation(s) =>
               /\ s.rb.outcome = "rejected"
               /\ s.rb.message # "Body exceeds max size of N bytes"
               /\ s.ctx.status # 413
          /\ WithinLimit(s) =>
               /\ s.pc = "done"
               /\ s.ctx.status = DefaultStatus
               /\ s.echo.built

(* What the code does agree with: when the stream ends within the limit,     *)
(* invalid JSON is logged as a warning and leaves json out, a token that     *)
(* does not decode gives jwt null, invalid override values are ignored, and  *)
(* the request completes with status 200; a body over the limit is the 413   *)
(* with the message naming the limit.                                        *)
C11_GracefulSteps ==
  \A r \in DOMAIN rq :
    LET s == rq[r]
    IN  NoStatusOverride(s.q) =>
          /\ WithinLimit(s) =>
               /\ s.pc = "done" /\ s.ctx.status = DefaultStatus
               /\ s.echo.built
               /\ s.echo.json = "parsed" <=>
                    IsJson(s.q) /\ JsonParse(SentBody(s)).ok
               /\ Logged("Invalid JSON body") <=>
                    IsJson(s.q) /\ ~JsonParse(SentBody(s)).ok
               /\ s.echo.jwt = "decoded" <=>
                    env.JWT_HEADER # "" /\ s.q.token = <<"B", " ", "h", ".", "p", ".", "s">>
          /\ OverLimit(s) =>
               /\ s.ctx.status = 413
               /\ s.ctx.body.message = "Body exceeds max size of N bytes"

\* Invalid JSON, a malformed token and an invalid status value, answered 200.
C11_GracefulReached ==
  \E r \in DOMAIN rq :
    LET s == rq[r]
    IN  /\ s.pc = "done" /\ WithinLimit(s)
        /\ IsJson(s.q) /\ SentBody(s) = <<"1", "x">>
        /\ env.JWT_HEADER # "" /\ s.q.token = <<"h", ".", "p">>
        /\ s.q.hStatus = <<"a", "b", "c">> /\ s.q.hDelay = <<"x">>
        /\ s.ctx.status = 200 /\ s.echo.jwt = "null"

----------------------------------------------------------------------------
\* The body mode of the response-writing step: "null" when echo-back is
\* disabled, "string" for response_body_only=true, "echo" otherwise.
BodyMode(q) ==
  IF env.ECHO_BACK_TO_CLIENT = "false" THEN "null"
  ELSE IF q.rbo = "true" THEN "string"
  ELSE "echo"

C12_OtherModes ==
  \E r \in DOMAIN rq :
    LET s == rq[r]
    IN  /\ s.pc = "done" /\ Traced(s, "echo.send")
        /\ s.ctx.body.kind \in {"string", "null"}
        /\ s.q.hType = "text/plain" /\ s.q.qType = "text/html"
        /\ s.ctx.type = "text/plain"

----------------------------------------------------------------------------
\* The place of an event in the order of the stages: the CORS annotator, the
\* access logger, the metrics recorder, the request reflector, and back.
Rank(event) ==
  CASE event = "cors" -> 1
    [] event = "log.pre" -> 2
    [] event \in {"metrics.pre", "metrics.scrape"} -> 3
    [] event \in {"echo.override", "echo.read"} -> 4
    [] event \in {"echo.413", "echo.build"} -> 5
    [] event = "echo.send" -> 6
    [] event = "metrics.post" -> 7
    [] event = "log.post" -> 8

\* The request is a scrape of the metrics.
IsScrape(q) ==
  env.PROMETHEUS_ENABLED = "true" /\ q.method = "GET" /\ q.path = ScrapePath

\* The lines of the access log.
AccessLines == SelectSeq(logs, LAMBDA l : l.msg = "access")

(* C13: every request passes the enabled stages in the order CORS, access    *)
(* log, metrics, echo handler, each entered at most once; a preflight stops  *)
(* at the CORS stage and a scrape at the metrics stage, and no later stage   *)
(* runs; the access-log line and the histogram observation are made only     *)
(* after the echo handler has finished, and carry the final status, 413 and  *)
(* status overrides included.                                                *)
C13_Pipeline ==
  \A r \in DOMAIN rq :
    LET s  == rq[r]
        tr == s.trace
        preflight == env.CORS_ALLOW_ORIGIN # "" /\ s.q.method = "OPTIONS"
        logging   == env.DISABLE_REQUEST_LOGS # "true"
        metrics   == env.PROMETHEUS_ENABLED = "true"
    IN  s.pc # "idle" =>
          /\ \A i, j \in 1..Len(tr) : i < j => Rank(tr[i]) < Rank(tr[j])
          /\ Traced(s, "cors") <=> env.CORS_ALLOW_ORIGIN # ""
          /\ preflight => tr = <<"cors">> /\ s.pc = "done"
          /\ ~preflight =>
               /\ Traced(s, "log.pre") <=> logging
               /\ Traced(s, "metrics.scrape") <=> IsScrape(s.q)
               /\ Traced(s, "metrics.pre") <=> metrics /\ ~IsScrape(s.q)
               /\ (Traced(s, "echo.override") \/ Traced(s, "echo.read"))
                    <=> ~IsScrape(s.q)
          /\ IsScrape(s.q) /\ ~preflight =>
               /\ s.pc = "done"
               /\ \A i \in 1..Len(tr) :
                    tr[i] \notin EchoEvents \cup {"metrics.pre", "metrics.post"}
               /\ hist = <<>>
          /\ s.pc # "done" =>
               /\ ~Traced(s, "metrics.post") /\ ~Traced(s, "log.post")
               /\ AccessLines = <<>> /\ hist = <<>>
          /\ s.pc = "done" /\ ~preflight =>
               /\ Traced(s, "log.post") <=> logging
               /\ Traced(s, "metrics.post") <=> metrics /\ ~IsScrape(s.q)
               /\ Len(AccessLines) =
                    IF logging /\ s.q.path \notin env.LOG_IGNORE_PATH
                    THEN 1 ELSE 0
               /\ \A i \in 1..Len(AccessLines) :
                    AccessLines[i].status = s.ctx.status
               /\ \A i \in 1..Len(hist) :
                    env.PROMETHEUS_WITH_STATUS = "true" =>
                      hist[i].status = ToString(s.ctx.status)

\* A request through all four stages whose body was too large: the stages
\* in order, and the access-log line and the observation with status 413.
C13_Witness ==
  \E r \in DOMAIN rq :
    LET s == rq[r]
    IN  /\ s.pc = "done"
        /\ s.trace = <<"cors", "log.pre", "metrics.pre", "echo.read",
                       "echo.413", "metrics.post", "log.post">>
        /\ Len(AccessLines) = 1 /\ AccessLines[1].status = 413
        /\ Len(hist) = 1 /\ hist[1].status = "413"

\* A delayed request with a status override: the access-log line written
\* after the delay, with status 418.
C13_Overridden ==
  \E r \in DOMAIN rq :
    LET s == rq[r]
    IN  /\ s.pc = "done" /\ s.delayed /\ s.sentAt > s.arrivedAt
        /\ Traced(s, "echo.send") /\ Traced(s, "metrics.post")
        /\ Len(AccessLines) = 1 /\ AccessLines[1].status = 418

----------------------------------------------------------------------------
\* Of the first n chunks delivered, those that arrived while the running
\* total was within the limit.
RECURSIVE KeptUpTo(_, _)
KeptUpTo(s, n) ==
  IF n = 0 THEN <<>>
  ELSE IF Len(SentUpTo(s, n)) <= MAX_BODY_SIZE
  THEN Append(KeptUpTo(s, n - 1), StreamChunk(s.q, s.wire[n]))
  ELSE KeptUpTo(s, n - 1)

(* C14: with a positive limit, the chunk that takes the running total over   *)
(* the limit and every chunk after it are not accumulated, but they are      *)
(* still consumed and counted; until the stream ends or fails the read stays *)
(* pending and the handler keeps waiting on the stream, whatever was         *)
(* delivered; the failure naming the configured limit is raised at the end   *)
(* event and only there.                                                     *)
C14_Drain ==
  \A r \in DOMAIN rq :
    LET s == rq[r]
    IN  MAX_BODY_SIZE > 0 /\ s.pc # "idle" =>
          /\ s.rb.exceeded <=> SizeViolation(s)
          /\ s.rb.chunks = KeptUpTo(s, Len(s.wire))
          /\ s.rb.size = Len(SentBody(s))
          /\ s.event = "" /\ Traced(s, "echo.read") =>
               /\ s.pc = "reading" /\ s.rb.outcome = "pending"
          /\ s.event = "end" /\ s.rb.exceeded =>
               /\ s.rb.outcome = "rejected"
               /\ s.rb.message = "Body exceeds max size of N bytes"
               /\ s.rb.limit = MAX_BODY_SIZE
          /\ s.rb.message = "Body exceeds max size of N bytes" =>
               s.event = "end" /\ s.rb.exceeded

\* A stream that went over the limit with its second chunk, delivered a
\* third, and was rejected at its end with only the first chunk kept.
C14_Witness ==
  \E r \in DOMAIN rq :
    LET s == rq[r]
    IN  /\ MAX_BODY_SIZE > 0 /\ s.event = "end"
        /\ Len(s.wire) = 3
        /\ Len(SentUpTo(s, 1)) <= MAX_BODY_SIZE
        /\ Len(SentUpTo(s, 2)) > MAX_BODY_SIZE
        /\ Len(s.rb.chunks) = 1
        /\ s.rb.size = Len(SentBody(s))
        /\ s.rb.outcome = "rejected" /\ s.rb.limit = MAX_BODY_SIZE

----------------------------------------------------------------------------
\* The read of request r is settled in rb as it is in rb2.
SameOutcome(rb, rb2) ==
  /\ rb2.outcome = rb.outcome
  /\ rb2.value = rb.value
  /\ rb2.message = rb.message
  /\ rb2.limit = rb.limit

(* C15: with a positive MAX_BODY_SIZE, after any sequence of stream events   *)
(* the chunks accumulated hold at most MAX_BODY_SIZE bytes; the exceeded     *)
(* flag, once set, stays set; and the read settles at most once: the first   *)
(* end or error event decides the outcome and no later event changes it.     *)
C15_ReadBound ==
  /\ [](\A r \in DOMAIN rq :
          MAX_BODY_SIZE > 0 => Len(Concat(rq[r].rb.chunks)) <= MAX_BODY_SIZE)
  /\ [][\A r \in DOMAIN rq :
          /\ rq[r].rb.exceeded => rq'[r].rb.exceeded
          /\ rq[r].rb.outcome # "pending" => SameOutcome(rq[r].rb, rq'[r].rb)
          /\ rq[r].rb.outcome = "pending" /\ rq'[r].rb.outcome # "pending" =>
               rq'[r].event \in {"end", "error"}]_vars

\* A read resolved with a body of exactly the limit, then two more events of
\* which one is data that takes the total over the limit: the outcome and
\* the chunks are as they were.
C15_Witness ==
  \E r \in DOMAIN rq :
    LET s == rq[r]
    IN  /\ MAX_BODY_SIZE > 0 /\ s.event = "end" /\ s.late = 2
        /\ s.rb.outcome = "resolved"
        /\ Len(s.rb.value) = MAX_BODY_SIZE
        /\ Len(Concat(s.rb.chunks)) = MAX_BODY_SIZE
        /\ s.rb.exceeded /\ s.rb.size > MAX_BODY_SIZE
        /\ s.rb.message = ""

====
